---- MODULE Spec2Model ----
(***************************************************************************)
(* Model of openagi's Worker (src/src/openagi/worker.py): one call of      *)
(* Worker.execute_task, its while loop, the continuation predicate         *)
(* should_continue, the action dispatch and the forced-output fallback;    *)
(* the validation of output_key at construction; a call of _force_output.  *)
(*                                                                         *)
(* Texts are sequences of fragments.  A fragment is prose or one JSON      *)
(* object; an LLM response is one fragment tagged with the number of the   *)
(* llm.run call that produced it, so that two responses are never the      *)
(* same text by accident.                                                  *)
(***************************************************************************)
EXTENDS Integers, Sequences, FiniteSets, TLC

\* ------------------------------------------------------------------ bounds
\* largest max_iterations a Worker is configured with
MaxIterations == 2
\* cap on the number of times the while body is entered in one call (a pass
\* that takes `continue` at line 176 does not count as an iteration, so the
\* code itself sets no bound)
MaxPasses == 5
\* largest number of (action_cls, params) pairs the resolver returns
MaxActions == 2
\* longest output_key a Worker is constructed with
MaxKeyLen == 3

\* ------------------------------------------------------------- JSON values
\* Classes of the value the model's JSON holds under output_key:
\*   absent : the key is not in the mapping
\*   empty  : null, "", [] or {}
\*   zero   : 0 or false (a value, but falsy in Python)
\*   text   : any other value (a non-empty string, a non-zero number, ...)
KeyVals == {"absent", "empty", "zero", "text"}

\* Classes of the value under "action":
\*   absent       : no "action" field
\*   empty_string : "" (or null, [], 0: falsy, rendered as prose)
\*   empty_object : {} (falsy, rendered as a JSON object)
\*   known        : a descriptor the resolver resolves
\*   unknown      : a descriptor for which the resolver raises KeyError
\*   malformed    : a descriptor for which the resolver raises another error
ActVals == {"absent", "empty_string", "empty_object", "known", "unknown", "malformed"}

\* Python's None, in the shape of a mapping so that TLC can compare the two
None == [some |-> FALSE, key |-> "absent", act |-> "absent", other |-> FALSE]

\* The JSON object {}
EmptyMapping == [some |-> TRUE, key |-> "absent", act |-> "absent", other |-> FALSE]

\* The JSON objects a response may carry; other = it has fields besides
\* output_key and "action".  Every class of "action" occurs without an
\* output key, every class of output key without an action, and a resolvable
\* action also next to a zero and next to a text output key.
Mappings ==
    { [some |-> TRUE, key |-> "absent", act |-> a, other |-> TRUE] : a \in ActVals }
    \cup { [some |-> TRUE, key |-> k, act |-> "absent", other |-> TRUE] : k \in KeyVals }
    \cup { [some |-> TRUE, key |-> k, act |-> "known", other |-> TRUE] :
              k \in {"zero", "text"} }
    \cup {EmptyMapping}

\* --------------------------------------------------------------------- text
Prose(kind) == [kind |-> kind, call |-> 0, m |-> None]

\* The texts the n-th llm.run call may return: prose only, or one JSON object
Responses(n) ==
    { <<[kind |-> "llm_prose", call |-> n, m |-> None]>> }
    \cup { <<[kind |-> "json", call |-> n, m |-> j]>> : j \in Mappings }

\* JSON Extractor: the last JSON object embedded in the text, or None
RECURSIVE get_last_json(_)
get_last_json(text) ==
    IF Len(text) = 0 THEN None
    ELSE IF text[Len(text)].kind = "json" THEN text[Len(text)].m
    ELSE get_last_json(SubSeq(text, 1, Len(text) - 1))

\* ------------------------------------------------------- Python truthiness
\* bool(d) of an Optional[Dict]: None and {} are falsy
TruthyDict(d) == d.some /\ d # EmptyMapping

\* bool(v) of a JSON value under output_key (dict.get gives None when absent)
TruthyKeyVal(v) == v = "text"

\* bool(a) of the value under "action"
TruthyAction(a) == a \in {"known", "unknown", "malformed"}

\* ------------------------------------------------------------------- state
VARIABLES
    max_iterations,        \* Worker.max_iterations
    force_output,          \* Worker.force_output
    pc,                    \* position in execute_task
    iteration,             \* local iteration
    observations,          \* local observations (a text)
    all_thoughts_and_obs,  \* the transcript (a sequence of texts)
    continue_flag,         \* local continue_flag
    output,                \* local output (a mapping or None)
    action,                \* local action (class of output.get("action"))
    actions,               \* resolved actions still to run in the for loop
    task_result,           \* task.result
    task_actions,          \* TRUE once task.actions was written
    memory,                \* the task.result of every Memory.update_task call
    llm_calls,             \* number of self.llm.run calls so far
    force_calls,           \* number of them issued by _force_output
    run_calls,             \* number of run_action calls so far
    exec_failures,         \* number of run_action calls that raised
    passes,                \* number of times the while body was entered
    parsed_from,           \* the text the current output was parsed from
    json_seen,             \* some llm.run response so far carried JSON
    ret,                   \* the returned output
    error,                 \* the exception that left the call
    error_msg,             \* what the message of an OpenAGIException names
    output_key,            \* Worker.output_key (a string of character classes)
    forced                 \* the responses _force_output has received

vars == <<max_iterations, force_output, pc, iteration, observations,
          all_thoughts_and_obs, continue_flag, output, action, actions,
          task_result, task_actions, memory, llm_calls, force_calls,
          run_calls, exec_failures, passes, parsed_from, json_seen, ret, error,
          error_msg, output_key, forced>>

\* ------------------------------------------------------- should_continue
\* should_continue testing that the key is present (output_key in output)
\* where the code tests the value's truth
should_continue_key_present(llm_resp) ==
    LET out == get_last_json(llm_resp)
        output_key_exists == out.some /\ out.key # "absent"
    IN  <<~output_key_exists, out>>

\* lines 76-79
should_continue(llm_resp) ==
    LET out == get_last_json(llm_resp)
        output_key_exists == TruthyDict(out) /\ TruthyKeyVal(out.key)
    IN  <<~output_key_exists, out>>

\* --------------------------------------------------------- _force_output
\* _force_output without the guard of line 91: the second prompt is always
\* issued and decides
ForceOutputAlwaysRetries(r1, r2) ==
    LET second == should_continue(r2)
    IN  [calls        |-> 2,
         raised       |-> second[1],
         cont         |-> second[1],
         final_output |-> second[2],
         json         |-> (r1[1].kind = "json") \/ (r2[1].kind = "json")]

\* lines 81-102
\* r1, r2: the responses of the first and (if issued) second forced call
ForceOutput(r1, r2) ==
    LET first  == should_continue(r1)
        second == should_continue(r2)
        cont   == IF first[1] THEN second[1] ELSE first[1]
        final  == IF first[1] THEN second[2] ELSE first[2]
    IN  [calls        |-> IF first[1] THEN 2 ELSE 1,
         raised       |-> cont,
         cont         |-> cont,
         final_output |-> final,
         json         |-> (r1[1].kind = "json")
                          \/ (first[1] /\ r2[1].kind = "json")]

\* ------------------------------------------------------------- output_key
\* The classes of characters of an output_key: a-z A-Z, "_", 0-9, " ", "\n"
Chars == {"letter", "underscore", "digit", "space", "newline"}

\* line 42: default="final_output"
DefaultOutputKey == <<"letter", "underscore", "letter">>

\* the length of the longest prefix of v matched by [a-zA-Z_]*
RECURSIVE LeadingRun(_)
LeadingRun(v) ==
    IF Len(v) = 0 \/ v[1] \notin {"letter", "underscore"} THEN 0
    ELSE 1 + LeadingRun(Tail(v))

\* line 54: re.match("^[a-zA-Z_]+$", v); "$" matches at the end of the
\* string and also just before a newline that ends the string
RegexMatch(v) ==
    /\ LeadingRun(v) >= 1
    /\ \/ LeadingRun(v) = Len(v)
       \/ (LeadingRun(v) = Len(v) - 1 /\ v[Len(v)] = "newline")

\* ---------------------------------------------------------------- messages
\* no OpenAGIException was raised
NoMessage == [iterations |-> 0, task_name |-> FALSE]

\* lines 99-101: f"... after {self.max_iterations} iterations."
ForceOutputMessage == [iterations |-> max_iterations, task_name |-> FALSE]

\* lines 238-240 and 249-251: f"... after {iteration} iterations for task {task.name}"
ExhaustionMessage == [iterations |-> iteration, task_name |-> TRUE]

\* ------------------------------------------------------------------- Init
\* The fields of a Worker and the (not yet assigned) locals of a call, at the
\* given position, with the given output_key and transcript
Start(position, key, transcript) ==
    /\ max_iterations \in 1..MaxIterations
    /\ force_output \in BOOLEAN
    /\ pc = position
    /\ iteration = 0
    /\ observations = <<>>
    /\ all_thoughts_and_obs = transcript
    /\ continue_flag = TRUE
    /\ output = None
    /\ action = "absent"
    /\ actions = <<>>
    /\ task_result = <<>>
    /\ task_actions = FALSE
    /\ memory = <<>>
    /\ llm_calls = 0
    /\ force_calls = 0
    /\ run_calls = 0
    /\ exec_failures = 0
    /\ passes = 0
    /\ parsed_from = <<>>
    /\ json_seen = FALSE
    /\ ret = None
    /\ error = "none"
    /\ error_msg = NoMessage
    /\ output_key = key
    /\ forced = <<>>

\* a constructed Worker (default output_key) on which execute_task is called
Init == Start("init", DefaultOutputKey, <<>>)

\* ---------------------------------------------------------------- actions
\* all_thoughts_and_obs rebound to the new entries instead of extended
RecordOverwrites(transcript, entries) == entries

\* lines 142, 175, 185-186, 207-208, 212-213, 217:
\* all_thoughts_and_obs.append(entry), for each of the entries in turn
Record(transcript, entries) == transcript \o entries

\* lines 110-142: iteration = 1, the initial prompt, the first LLM call
ExecuteTask ==
    /\ pc = "init"
    /\ iteration' = 1
    /\ \E r \in Responses(llm_calls + 1) :
          /\ observations' = r
          /\ json_seen' = (json_seen \/ r[1].kind = "json")
    /\ llm_calls' = llm_calls + 1
    /\ all_thoughts_and_obs' = Record(<<>>, << <<Prose("prompt")>> >>)
    /\ pc' = "while"
    /\ UNCHANGED <<max_iterations, force_output, continue_flag, output, action,
                   actions, task_result, task_actions, memory, force_calls,
                   run_calls, exec_failures, passes, parsed_from, ret, error>>
    /\ UNCHANGED <<error_msg, output_key, forced>>

\* lines 144-145: max_iters = max_iterations + 1; while iteration < max_iters
WhileTest ==
    /\ pc = "while"
    /\ IF iteration < max_iterations + 1
       THEN /\ passes < MaxPasses
            /\ passes' = passes + 1
            /\ pc' = "body"
       ELSE /\ passes' = passes
            /\ pc' = "else"
    /\ UNCHANGED <<max_iterations, force_output, iteration, observations,
                   all_thoughts_and_obs, continue_flag, output, action, actions,
                   task_result, task_actions, memory, llm_calls, force_calls,
                   run_calls, exec_failures, parsed_from, json_seen, ret, error>>
    /\ UNCHANGED <<error_msg, output_key, forced>>

\* lines 149-154: continue_flag, output = should_continue(observations);
\* action = output.get("action") if output else None
Decide ==
    /\ pc = "body"
    /\ continue_flag' = should_continue(observations)[1]
    /\ output' = should_continue(observations)[2]
    /\ action' = IF TruthyDict(output') THEN output'.act ELSE "absent"
    /\ parsed_from' = observations
    /\ pc' = "save"
    /\ UNCHANGED <<max_iterations, force_output, iteration, observations,
                   all_thoughts_and_obs, actions, task_result, task_actions,
                   memory, llm_calls, force_calls, run_calls, exec_failures,
                   passes, json_seen, ret, error>>
    /\ UNCHANGED <<error_msg, output_key, forced>>

\* line 157 saving the terminal output only
SaveOnlyWhenDone == TruthyDict(output) /\ ~continue_flag

\* the guard of line 157: if output
SaveCondition == TruthyDict(output)

\* lines 156-163: task.result, task.actions, Memory.update_task
SaveToMemory ==
    /\ pc = "save"
    /\ IF SaveCondition
       THEN /\ task_result' = observations
            /\ task_actions' = TRUE
            /\ memory' = Append(memory, task_result')
       ELSE UNCHANGED <<task_result, task_actions, memory>>
    /\ pc' = "check"
    /\ UNCHANGED <<max_iterations, force_output, iteration, observations,
                   all_thoughts_and_obs, continue_flag, output, action, actions,
                   llm_calls, force_calls, run_calls, exec_failures, passes,
                   parsed_from, json_seen, ret, error>>
    /\ UNCHANGED <<error_msg, output_key, forced>>

\* the text "Action: {action}" of line 174 for a falsy action
ActionText(a) ==
    IF a = "empty_object"
    THEN <<[kind |-> "json", call |-> 0, m |-> EmptyMapping]>>
    ELSE <<Prose("action_falsy")>>

\* line 174: f"Action: {action}\n{observations} Unable to extract action. ..."
UnableToExtract(a, obs) == ActionText(a) \o obs \o <<Prose("unable_to_extract")>>

\* line 164 giving a named action precedence over the output key
BreakUnlessAction == ~continue_flag /\ ~TruthyAction(action)

\* the guard of line 164: if not continue_flag
BreakCondition == ~continue_flag

\* lines 164-176: break; or no action: diagnostic and continue; or dispatch
StopOrBranch ==
    /\ pc = "check"
    /\ IF BreakCondition
       THEN /\ pc' = "return"
            /\ UNCHANGED <<observations, all_thoughts_and_obs>>
       ELSE IF ~TruthyAction(action)
       THEN /\ observations' = UnableToExtract(action, observations)
            /\ all_thoughts_and_obs' = Record(all_thoughts_and_obs, <<observations'>>)
            /\ pc' = "while"
       ELSE /\ pc' = "resolve"
            /\ UNCHANGED <<observations, all_thoughts_and_obs>>
    /\ UNCHANGED <<max_iterations, force_output, iteration, continue_flag, output,
                   action, actions, task_result, task_actions, memory, llm_calls,
                   force_calls, run_calls, exec_failures, passes, parsed_from,
                   json_seen, ret, error>>
    /\ UNCHANGED <<error_msg, output_key, forced>>

\* line 179: action_json = f"```json\n{output}\n```\n" (the dict's repr)
action_json(out) == <<[kind |-> "action_json", call |-> 0, m |-> out]>>

\* line 183: "cls" in e or "module" in e or "kls" in e, e a KeyError.
\* An exception object is no container: the membership test itself raises.
KeyErrorTest == "TypeError"

\* The classes the resolver may hand back for a descriptor: one of the
\* worker's self.actions, or another importable class
ActionClasses == {"configured", "foreign"}

\* line 181: what get_act_classes_from_json(action) does for a descriptor
ResolverOutcome(a) ==
    IF a = "known" THEN "ok"
    ELSE IF a = "unknown" THEN "KeyError"
    ELSE "ResolveError"

\* line 182 catching every exception of the resolver
HandlerCatchesAll(exc) == TRUE

\* line 182: except KeyError
HandlerCatches(exc) == exc = "KeyError"

\* lines 178-192: get_act_classes_from_json and its KeyError handler
Resolve ==
    /\ pc = "resolve"
    /\ IF ResolverOutcome(action) = "ok"
       THEN /\ \E n \in 1..MaxActions :
                 \E resolved \in [1..n -> ActionClasses] : actions' = resolved
            /\ pc' = "run"
            /\ UNCHANGED <<observations, all_thoughts_and_obs, error>>
       ELSE IF HandlerCatches(ResolverOutcome(action))
       THEN IF KeyErrorTest = "TypeError"
            THEN /\ pc' = "raised"
                 /\ error' = "TypeError"
                 /\ UNCHANGED <<observations, all_thoughts_and_obs, actions>>
            ELSE IF KeyErrorTest = "True"
            THEN /\ observations' = action_json(output) \o observations
                 /\ all_thoughts_and_obs' =
                        Record(all_thoughts_and_obs,
                               <<action_json(output), observations'>>)
                 /\ pc' = "while"
                 /\ UNCHANGED <<actions, error>>
            ELSE /\ pc' = "raised"
                 /\ error' = "KeyError"
                 /\ UNCHANGED <<observations, all_thoughts_and_obs, actions>>
       ELSE /\ pc' = "raised"
            /\ error' = ResolverOutcome(action)
            /\ UNCHANGED <<observations, all_thoughts_and_obs, actions>>
    /\ UNCHANGED <<max_iterations, force_output, iteration, continue_flag, output,
                   action, task_result, task_actions, memory, llm_calls,
                   force_calls, run_calls, exec_failures, passes, parsed_from,
                   json_seen, ret>>
    /\ UNCHANGED <<error_msg, output_key, forced>>

\* line 202 without the handler: the action's error leaves execute_task
CatchesNothing == FALSE

\* line 202: except Exception (the handler of a failing run_action)
CatchesActionError == TRUE

\* line 206: f"Action: {action_json}\n{observations}. {e} Try to fix the error ..."
ExecDiagnostic(out, obs) ==
    action_json(out) \o obs \o <<Prose("error"), Prose("try_to_fix")>>

\* the text run_action returns on its n-th call
ActionResult(n) == <<[kind |-> "action_result", call |-> n, m |-> None]>>

\* lines 194-214: one turn of the for loop over the resolved actions
RunAction ==
    /\ pc = "run"
    /\ actions # <<>>
    /\ run_calls' = run_calls + 1
    /\ actions' = Tail(actions)
    /\ \E ok \in BOOLEAN :
          IF ok
          THEN /\ observations' = ActionResult(run_calls')
               /\ all_thoughts_and_obs' =
                      Record(all_thoughts_and_obs,
                             <<action_json(output),
                               <<Prose("observation")>> \o observations'>>)
               /\ pc' = IF actions' = <<>> THEN "prompt" ELSE "run"
               /\ UNCHANGED <<exec_failures, error>>
          ELSE IF CatchesActionError
          THEN /\ observations' = ExecDiagnostic(output, observations)
               /\ all_thoughts_and_obs' =
                      Record(all_thoughts_and_obs,
                             <<action_json(output), observations'>>)
               /\ exec_failures' = exec_failures + 1
               /\ pc' = IF actions' = <<>> THEN "prompt" ELSE "run"
               /\ UNCHANGED error
          ELSE /\ pc' = "raised"
               /\ error' = "ActionError"
               /\ exec_failures' = exec_failures + 1
               /\ UNCHANGED <<observations, all_thoughts_and_obs>>
    /\ UNCHANGED <<max_iterations, force_output, iteration, continue_flag, output,
                   action, task_result, task_actions, memory, llm_calls,
                   force_calls, passes, parsed_from, json_seen, ret>>
    /\ UNCHANGED <<error_msg, output_key, forced>>

\* line 229 counting a pass twice
NextIterationTwice(i) == i + 2

\* line 229: iteration += 1
NextIteration(i) == i + 1

\* lines 216-229: the thought marker, the next LLM call, iteration += 1
NextPrompt ==
    /\ pc = "prompt"
    /\ all_thoughts_and_obs' =
           Record(all_thoughts_and_obs,
                  << <<Prose("thought")>> \o observations \o <<Prose("actions")>> >>)
    /\ \E r \in Responses(llm_calls + 1) :
          /\ observations' = r
          /\ json_seen' = (json_seen \/ r[1].kind = "json")
    /\ llm_calls' = llm_calls + 1
    /\ iteration' = NextIteration(iteration)
    /\ pc' = "while"
    /\ UNCHANGED <<max_iterations, force_output, continue_flag, output, action,
                   actions, task_result, task_actions, memory, force_calls,
                   run_calls, exec_failures, passes, parsed_from, ret, error>>
    /\ UNCHANGED <<error_msg, output_key, forced>>

\* lines 89 and 96: what the llm.run calls of _force_output leave behind
ForceOutputCalls(f, r1, r2) ==
    /\ llm_calls' = llm_calls + f.calls
    /\ force_calls' = force_calls + f.calls
    /\ forced' = forced \o SubSeq(<<r1, r2>>, 1, f.calls)
    /\ json_seen' = (json_seen \/ f.json)

\* line 231: if iteration == self.max_iterations
ForcingCondition == iteration = max_iterations

\* lines 230-251: the else clause of the while loop (the loop ended without break)
LoopElse ==
    /\ pc = "else"
    /\ IF ForcingCondition
       THEN IF force_output
            THEN \E r1 \in Responses(llm_calls + 1), r2 \in Responses(llm_calls + 2) :
                   LET f == ForceOutput(r1, r2) IN
                   /\ ForceOutputCalls(f, r1, r2)
                   /\ IF f.raised
                      THEN /\ pc' = "raised"
                           /\ error' = "OpenAGIException"
                           /\ error_msg' = ForceOutputMessage
                           /\ UNCHANGED <<output, continue_flag, task_result,
                                          task_actions, memory>>
                      ELSE /\ output' = f.final_output
                           /\ continue_flag' = f.cont
                           /\ task_result' = observations
                           /\ task_actions' = TRUE
                           /\ memory' = Append(memory, task_result')
                           /\ pc' = "return"
                           /\ UNCHANGED <<error, error_msg>>
            ELSE /\ pc' = "raised"
                 /\ error' = "OpenAGIException"
                 /\ error_msg' = ExhaustionMessage
                 /\ UNCHANGED <<output, continue_flag, task_result, task_actions,
                                memory, llm_calls, force_calls, json_seen, forced>>
       ELSE /\ pc' = "return"
            /\ UNCHANGED <<output, continue_flag, task_result, task_actions, memory,
                           llm_calls, force_calls, json_seen, error, error_msg,
                           forced>>
    /\ UNCHANGED <<max_iterations, force_output, iteration, observations,
                   all_thoughts_and_obs, action, actions, run_calls,
                   exec_failures, passes, parsed_from, ret, output_key>>

\* lines 253-258: return output, task
Return ==
    /\ pc = "return"
    /\ ret' = output
    /\ pc' = "returned"
    /\ UNCHANGED <<max_iterations, force_output, iteration, observations,
                   all_thoughts_and_obs, continue_flag, output, action, actions,
                   task_result, task_actions, memory, llm_calls, force_calls,
                   run_calls, exec_failures, passes, parsed_from, json_seen, error>>
    /\ UNCHANGED <<error_msg, output_key, forced>>

Next ==
    \/ ExecuteTask
    \/ WhileTest
    \/ Decide
    \/ SaveToMemory
    \/ StopOrBranch
    \/ Resolve
    \/ RunAction
    \/ NextPrompt
    \/ LoopElse
    \/ Return

Spec == Init /\ [][Next]_vars

\* ------------------------------------------------- Worker construction
\* the strings of at most MaxKeyLen characters
Keys == UNION { [1..n -> Chars] : n \in 0..MaxKeyLen }

\* Worker(output_key=k, ...) is being constructed
InitConstruct == \E k \in Keys : Start("construct", k, <<>>)

\* lines 51-58: validate_output_key
Construct ==
    /\ pc = "construct"
    /\ IF RegexMatch(output_key)
       THEN /\ pc' = "init"
            /\ UNCHANGED error
       ELSE /\ pc' = "config_error"
            /\ error' = "ValueError"
    /\ UNCHANGED <<max_iterations, force_output, iteration, observations,
                   all_thoughts_and_obs, continue_flag, output, action, actions,
                   task_result, task_actions, memory, llm_calls, force_calls,
                   run_calls, exec_failures, passes, parsed_from, json_seen, ret,
                   error_msg, output_key, forced>>

SpecConstruct == InitConstruct /\ [][Construct]_vars

\* ------------------------------------------------ a call of _force_output
\* transcripts _force_output is called with
SampleTranscripts ==
    { << <<Prose("prompt")>> >>,
      << <<Prose("prompt")>>, <<Prose("thought"), Prose("actions")>> >> }

\* _force_output(llm_resp, all_thoughts_and_obs) is called on a Worker
InitForce == \E t \in SampleTranscripts : Start("force", DefaultOutputKey, t)

\* lines 81-102: _force_output, from its call to its return or raise; the
\* pair it returns is kept in continue_flag and ret
CallForceOutput ==
    /\ pc = "force"
    /\ \E r1 \in Responses(llm_calls + 1), r2 \in Responses(llm_calls + 2) :
          LET f == ForceOutput(r1, r2) IN
          /\ ForceOutputCalls(f, r1, r2)
          /\ IF f.raised
             THEN /\ pc' = "raised"
                  /\ error' = "OpenAGIException"
                  /\ error_msg' = ForceOutputMessage
                  /\ UNCHANGED <<continue_flag, ret>>
             ELSE /\ pc' = "force_returned"
                  /\ continue_flag' = f.cont
                  /\ ret' = f.final_output
                  /\ UNCHANGED <<error, error_msg>>
    /\ UNCHANGED <<max_iterations, force_output, iteration, observations,
                   all_thoughts_and_obs, output, action, actions, task_result,
                   task_actions, memory, run_calls, exec_failures, passes,
                   parsed_from, output_key>>

SpecForce == InitForce /\ [][CallForceOutput]_vars

\* a call of execute_task or a call of _force_output
SpecCalls == (Init \/ InitForce) /\ [][Next \/ CallForceOutput]_vars

\* =================================================================== claims
\* The words of the claims, read literally.
\* a value under output_key that is not empty: 0 and false are values
NonEmptyValue(v) == v \in {"zero", "text"}

\* the mapping is non-null and holds a non-empty value under output_key
HoldsOutputKey(m) == m.some /\ NonEmptyValue(m.key)

\* the mapping is non-null and holds a value under output_key that Python
\* counts as true: not null, false, 0, "" or an empty collection
HoldsTruthyOutputKey(m) == m.some /\ m.key = "text"

\* the text has a fragment of the given kind
Embeds(text, kind) == \E i \in 1..Len(text) : text[i].kind = kind

\* execute_task is over
Finished == pc \in {"returned", "raised"}

\* the loop was left because the iteration bound was reached, and what
\* follows the loop has been decided
Exhausted == iteration > max_iterations /\ pc \in {"return", "returned", "raised"}

\* C1: whenever execute_task returns normally, the returned output is a
\* parsed mapping with a non-empty value under output_key (a run in which no
\* response carries one ends with an error, not a return).
C1_ReturnedOutputHoldsKey ==
    pc = "returned" => HoldsOutputKey(ret)

\* C2: execute_task always terminates because the iteration budget bounds
\* the loop: every way back to the loop test, whatever the response was (no
\* JSON, no action field, an unknown action), lowers the remaining budget
\* max_iterations + 1 - iteration, so no response makes the loop run forever.
C2_EveryPassConsumesBudget ==
    [][(pc \notin {"init", "while"} /\ pc' = "while")
          => (max_iterations' + 1 - iteration') < (max_iterations + 1 - iteration)]_vars

\* C3: in one execute_task call the body of the while loop is entered at
\* most max_iterations + 1 times.
C3_BodyEntriesBounded ==
    passes <= max_iterations + 1

\* C4: with force_output false, a loop that uses up its budget without a
\* response holding the output key makes execute_task fail with the
\* iteration-exhaustion error (OpenAGIException); it returns nothing.
C4_ExhaustionWithoutForcingFails ==
    (~force_output /\ Exhausted) => (pc = "raised" /\ error = "OpenAGIException")

\* C5: with force_output true, a loop left because the bound was reached
\* enters the forcing protocol: at least one forced LLM prompt is issued
\* before execute_task returns or fails.
C5_ExhaustionForcesOutput ==
    (force_output /\ Exhausted) => force_calls >= 1

\* C6, as stated: should_continue returns shouldContinue = false exactly when
\* the extracted JSON is non-null and holds a non-empty value under
\* output_key, and its second component is the extracted mapping (or null).
C6_ShouldContinueNonEmpty ==
    pc = "save" =>
        /\ (~continue_flag) <=> HoldsOutputKey(get_last_json(observations))
        /\ output = get_last_json(observations)

\* C6, amended: should_continue returns shouldContinue = false exactly when
\* the extracted JSON is non-null and holds a value under output_key that
\* Python counts as true (0 and false count as no output, like an empty
\* value); its second component is the extracted mapping (or null).
C6_ShouldContinueTruthy ==
    pc = "save" =>
        /\ (~continue_flag) <=> HoldsTruthyOutputKey(get_last_json(observations))
        /\ output = get_last_json(observations)

\* should_continue has answered "stop" on a response that also names an action
C6_Witness ==
    /\ pc = "save"
    /\ ~continue_flag
    /\ get_last_json(observations).key = "text"
    /\ get_last_json(observations).act = "known"

\* C7: an unknown action reference (the resolver raising a lookup-key error)
\* never aborts the task: execute_task does not raise because of it.
C7_UnknownActionNeverAborts ==
    pc = "raised" => action # "unknown"

\* C8: a resolved action that raises does not end execute_task: a diagnostic
\* embedding the error is appended to the transcript (after the action's
\* JSON), the remaining resolved actions of the pass are still run one by
\* one, and the pass then issues the next LLM call and counts as one
\* iteration.
C8_ActionErrorAbsorbed ==
    [][/\ pc = "run" =>
            /\ pc' \in {"run", "prompt"}
            /\ run_calls' = run_calls + 1
            /\ actions' = Tail(actions)
            /\ (pc' = "prompt") <=> (actions' = <<>>)
            /\ exec_failures' > exec_failures =>
                  /\ Len(all_thoughts_and_obs') = Len(all_thoughts_and_obs) + 2
                  /\ SubSeq(all_thoughts_and_obs', 1, Len(all_thoughts_and_obs))
                        = all_thoughts_and_obs
                  /\ Embeds(all_thoughts_and_obs'[Len(all_thoughts_and_obs') - 1],
                            "action_json")
                  /\ Embeds(all_thoughts_and_obs'[Len(all_thoughts_and_obs')], "error")
                  /\ observations' = all_thoughts_and_obs'[Len(all_thoughts_and_obs')]
       /\ pc = "prompt" =>
            /\ pc' = "while"
            /\ llm_calls' = llm_calls + 1
            /\ iteration' = iteration + 1
            /\ error' = "none"]_vars

\* an action failed, a later run_action succeeded, and the task completed
\* with an output holding the key
C8_Witness ==
    /\ pc = "returned"
    /\ HoldsTruthyOutputKey(ret)
    /\ exec_failures = 1
    /\ run_calls = 2
    /\ \E i \in 1..Len(all_thoughts_and_obs) :
          /\ Embeds(all_thoughts_and_obs[i], "error")
          /\ \E j \in (i + 1)..Len(all_thoughts_and_obs) :
                Embeds(all_thoughts_and_obs[j], "observation")

\* the loop has examined a response carrying a JSON object and is past the
\* persist step of that pass (lines 156-163), the only update_task call of
\* the loop
JsonExamined ==
    passes >= 1 /\ pc \notin {"body", "save"} /\ get_last_json(parsed_from).some

\* C9, as stated: Memory.update_task is invoked at least once whenever an
\* LLM response contains structured JSON: once the loop has examined such a
\* response and passed its persist step, update_task has been invoked.
C9_JsonIsSaved ==
    JsonExamined => Len(memory) >= 1

\* C9, amended: in every run in which some examined response yields a
\* non-empty JSON mapping, Memory.update_task is invoked in the pass that
\* examines it, and whenever execute_task returns, the task.result of the
\* last invocation is the text the returned output was parsed from.
C9_NonEmptyJsonIsSaved ==
    /\ (pc \notin {"body", "save"} /\ passes >= 1
          /\ TruthyDict(get_last_json(parsed_from)))
          => (Len(memory) >= 1 /\ memory[Len(memory)] = parsed_from)
    /\ pc = "returned"
          => /\ Len(memory) >= 1
             /\ memory[Len(memory)] = parsed_from
             /\ task_result = parsed_from
             /\ ret = get_last_json(parsed_from)

\* execute_task has returned after more than one update_task call, the last
\* of them with the text of the response the output came from
C9_Witness ==
    /\ pc = "returned"
    /\ Len(memory) >= 2
    /\ memory[Len(memory)] = parsed_from
    /\ memory[1] # parsed_from
    /\ HoldsTruthyOutputKey(ret)

\* what C10 says of an examined response holding the output key (holds):
\* the call is on its way out or has returned, the decision was "stop", the
\* output is the mapping parsed from that response, no run_action and no
\* further llm.run call happened in that iteration
C10_Terminates(holds) ==
    (passes >= 1 /\ pc # "body" /\ holds)
        => /\ pc \in {"save", "check", "return", "returned"}
           /\ ~continue_flag
           /\ output = get_last_json(parsed_from)
           /\ observations = parsed_from
           /\ llm_calls = iteration
           /\ actions = <<>>
           /\ error = "none"
           /\ pc = "returned" => ret = get_last_json(parsed_from)

\* C10, as stated: a response with a non-empty value under output_key ends
\* execute_task at that iteration with exactly that mapping, without any
\* action run (even if the JSON names one) and without a further LLM call.
C10_NonEmptyKeyTerminates ==
    C10_Terminates(HoldsOutputKey(get_last_json(parsed_from)))

\* C10, amended: the same of a response whose value under output_key Python
\* counts as true (a value of 0 or false does not end the task).
C10_TruthyKeyTerminates ==
    C10_Terminates(HoldsTruthyOutputKey(get_last_json(parsed_from)))

\* the first response held the key and named an action: returned at
\* iteration 1 after one LLM call, no action run
C10_Witness ==
    /\ pc = "returned"
    /\ ret.key = "text"
    /\ ret.act = "known"
    /\ iteration = 1
    /\ llm_calls = 1
    /\ run_calls = 0

\* C11: execute_task only runs actions of the worker's own actions list: a
\* class that is not in self.actions is never passed to run_action, whatever
\* the resolver returned.
C11_OnlyConfiguredActionsRun ==
    [][run_calls' > run_calls => Head(actions) = "configured"]_vars

\* C12: a resolution failure that is not a lookup-key error leaves
\* execute_task at once with that error: no further LLM call, no action run,
\* no Memory.update_task, no change of the iteration counter, then or later.
C12_OtherResolveErrorPropagates ==
    [][/\ (pc = "resolve" /\ action = "malformed") =>
            /\ pc' = "raised"
            /\ error' = "ResolveError"
            /\ UNCHANGED <<llm_calls, run_calls, memory, task_result, iteration,
                           all_thoughts_and_obs, observations>>
       /\ pc = "raised" => UNCHANGED vars]_vars

\* the resolver failed with another error in the second iteration, after a
\* pass that ran actions
C12_Witness ==
    /\ pc = "raised"
    /\ error = "ResolveError"
    /\ action = "malformed"
    /\ iteration = 2
    /\ run_calls >= 1

\* C14: after a pass that ends on a recoverable path (no JSON, no action
\* field, an unknown action) the loop calls the LLM again before it decides
\* again: every decision is taken on the response of an llm.run call that no
\* earlier decision examined, so the k-th decision examines the k-th response.
C14_DecisionOnFreshResponse ==
    pc = "body" => (observations \in Responses(llm_calls) /\ passes = llm_calls)

\* C15: every pass through the loop body that does not leave the loop raises
\* the iteration counter by exactly 1, whichever branch it took.
C15_EveryPassCountsOnce ==
    [][(pc \notin {"init", "while"} /\ pc' = "while")
          => iteration' = iteration + 1]_vars

\* the positions inside the while loop other than the persist step
LoopPositions == {"while", "body", "check", "resolve", "run", "prompt"}

\* what C17 says of a loop pass, given which parsed outputs count as a
\* parsed JSON object (saved): the persist step writes task.result and
\* task.actions and calls update_task once, before the stop/continue
\* decision; it changes nothing otherwise; no other step of the pass touches
\* the task or Memory
C17_PassPersists(saved) ==
    /\ pc = "save" =>
          /\ pc' = "check"
          /\ IF saved
             THEN /\ task_result' = observations
                  /\ task_actions' = TRUE
                  /\ memory' = Append(memory, observations)
             ELSE UNCHANGED <<task_result, task_actions, memory>>
    /\ pc \in LoopPositions => UNCHANGED <<task_result, task_actions, memory>>

\* C17, as stated: every pass whose response yields a parsed JSON object,
\* the empty object included, persists; a pass without JSON changes nothing.
C17_EveryJsonPassPersists ==
    [][C17_PassPersists(output.some)]_vars

\* C17, amended: every pass whose response yields a non-empty JSON object
\* persists; a pass without JSON or with the empty object {} changes nothing.
C17_NonEmptyJsonPassPersists ==
    [][C17_PassPersists(output.some /\ output # EmptyMapping)]_vars

\* a second, non-terminal pass has persisted its response
C17_Witness ==
    /\ pc = "check"
    /\ continue_flag
    /\ Len(memory) = 2
    /\ memory[2] = observations
    /\ task_result = observations
    /\ memory[1] # observations
    /\ llm_calls = 2

\* C20: the worker's own llm.run calls never exceed max_iterations + 3, and
\* the iteration counter never decreases and stays in 1 .. max_iterations + 1.
C20_CallsAndIterationBounded ==
    /\ [](pc # "init" => /\ iteration \in 1..(max_iterations + 1)
                         /\ llm_calls <= max_iterations + 3)
    /\ [][iteration' >= iteration]_vars

\* the budget was used up: one LLM call per pass after the initial one
C20_Witness ==
    /\ pc = "returned"
    /\ iteration = max_iterations + 1
    /\ llm_calls = max_iterations + 1
    /\ max_iterations = MaxIterations

\* the string is non-empty and made only of ASCII letters and underscores
OnlyLettersAndUnderscores(key) ==
    /\ Len(key) >= 1
    /\ \A i \in 1..Len(key) : key[i] \in {"letter", "underscore"}

\* C13: construction accepts an explicitly given output_key exactly when it
\* is a non-empty string of ASCII letters and underscores, and fails with a
\* configuration error for every other value.
C13_AcceptsExactlyLettersAndUnderscores ==
    /\ pc = "init" => OnlyLettersAndUnderscores(output_key)
    /\ pc = "config_error" =>
          (~OnlyLettersAndUnderscores(output_key) /\ error = "ValueError")

\* the i-th forced response carries no (truthy, or else non-empty) output key
ForcedLacks(i, truthy) ==
    IF truthy THEN ~HoldsTruthyOutputKey(get_last_json(forced[i]))
    ELSE ~HoldsOutputKey(get_last_json(forced[i]))

\* _force_output is over: at most two llm.run calls, the second exactly when
\* the first response lacks the key, a failure exactly when both lack it, and
\* otherwise (False, output) with the output parsed from the last forced
\* response and holding the key
C16_ForceOutputContract(truthy) ==
    pc \in {"force_returned", "raised"} =>
        /\ Len(forced) \in 1..2
        /\ force_calls = Len(forced)
        /\ llm_calls = Len(forced)
        /\ Len(forced) = 2 <=> ForcedLacks(1, truthy)
        /\ pc = "raised" <=>
              (Len(forced) = 2 /\ ForcedLacks(1, truthy) /\ ForcedLacks(2, truthy))
        /\ pc = "raised" => error = "OpenAGIException"
        /\ pc = "force_returned" =>
              /\ continue_flag = FALSE
              /\ ret = get_last_json(forced[Len(forced)])
              /\ ~ForcedLacks(Len(forced), truthy)

\* C16 (as stated): _force_output issues at most two LLM calls, the second
\* only if the first forced response lacks a non-empty output key; it fails
\* exactly when both lack one and otherwise returns (false, output) with a
\* non-empty value under output_key.
C16_ForceOutputNonEmpty == C16_ForceOutputContract(FALSE)

\* C16 (amended): the same with "a value Python counts as true" in place of
\* "a non-empty value": a response whose output key is 0 or false is retried
\* and, if both are such, fails.
C16_ForceOutputTruthy == C16_ForceOutputContract(TRUE)

\* _force_output returned the output of its second prompt
C16_Witness ==
    /\ pc = "force_returned"
    /\ Len(forced) = 2
    /\ ret.key = "text"
    /\ get_last_json(forced[1]).key = "empty"

C19_TranscriptAppendOnly ==
    /\ [](pc = "init" => all_thoughts_and_obs = <<>>)
    /\ [](pc # "init" =>
            /\ Len(all_thoughts_and_obs) >= 1
            /\ all_thoughts_and_obs[1] = <<Prose("prompt")>>)
    /\ [][/\ Len(all_thoughts_and_obs') >= Len(all_thoughts_and_obs)
          /\ SubSeq(all_thoughts_and_obs', 1, Len(all_thoughts_and_obs))
                = all_thoughts_and_obs
          /\ pc = "init" => all_thoughts_and_obs' = << <<Prose("prompt")>> >>
          /\ pc = "force" => all_thoughts_and_obs' = all_thoughts_and_obs]_vars

\* a call that dispatched an action and went on to a further prompt has
\* returned with its transcript grown entry by entry
C19_Witness ==
    /\ pc = "returned"
    /\ run_calls >= 1
    /\ Len(all_thoughts_and_obs) >= 4
    /\ Embeds(all_thoughts_and_obs[Len(all_thoughts_and_obs)], "thought")
====
